---- MODULE Spec2Model ----
(***************************************************************************)
(* Mala inventory: the client-side inventory calculator (src/src/App.tsx), *)
(* the REST item store (src/unnamed/part_000, the express + sqlite3        *)
(* server) and the client's optimistic edit (handleUpdate).                *)
(*                                                                         *)
(* Numbers.  A JavaScript number is an IEEE-754 binary64 value.  The model *)
(* keeps every number that is part of the state as an integer count of     *)
(* hundredths (the decimal the user typed, or the decimal that toFixed(2)  *)
(* printed) and evaluates the arithmetic of the calculator on the binary64 *)
(* values of those decimals: a double is a record [neg, m, e] standing for *)
(* (-1)^neg * m * 2^e with m a natural number below 2^Prec, kept as a      *)
(* little-endian sequence of limbs because m * m needs 106 bits.           *)
(* Subnormals, infinities and NaN are outside the bounded inputs.          *)
(***************************************************************************)
EXTENDS Integers, Sequences, FiniteSets, TLC

VARIABLES item, row, csv,            \* calculator: the item, its rendered table row, its exported CSV row
          db, seq, assigned, resp,   \* server: table items, sqlite_sequence, ids handed out, last response
          nops,                      \* number of API requests served so far
          items, calls               \* client: React state `items`, handleUpdate calls in flight

vars == <<item, row, csv, db, seq, assigned, resp, nops, items, calls>>

calcVars   == <<item, row, csv>>
serverVars == <<db, seq, assigned, resp, nops>>
clientVars == <<items, calls>>

(***************************************************************************)
(* Natural numbers of arbitrary size: little-endian limbs, no high zeros.  *)
(***************************************************************************)
LimbBase == 2^15

Rest(a) == IF a = << >> THEN << >> ELSE Tail(a)
Limb0(a) == IF a = << >> THEN 0 ELSE Head(a)

RECURSIVE BTrim(_)
BTrim(a) == IF a # << >> /\ a[Len(a)] = 0 THEN BTrim(SubSeq(a, 1, Len(a) - 1)) ELSE a

RECURSIVE BNat(_)
BNat(n) == IF n = 0 THEN << >> ELSE <<n % LimbBase>> \o BNat(n \div LimbBase)

RECURSIVE BInt(_)
BInt(a) == IF a = << >> THEN 0 ELSE Head(a) + LimbBase * BInt(Tail(a))

RECURSIVE BAddC(_, _, _)
BAddC(a, b, c) ==
    IF a = << >> /\ b = << >>
    THEN (IF c = 0 THEN << >> ELSE <<c>>)
    ELSE LET s == Limb0(a) + Limb0(b) + c
         IN  <<s % LimbBase>> \o BAddC(Rest(a), Rest(b), s \div LimbBase)

BAdd(a, b) == BAddC(a, b, 0)

\* a - b for a >= b
RECURSIVE BSubC(_, _, _)
BSubC(a, b, c) ==
    IF a = << >> THEN << >>
    ELSE LET d == Head(a) - Limb0(b) - c
         IN  IF d < 0 THEN <<d + LimbBase>> \o BSubC(Tail(a), Rest(b), 1)
                      ELSE <<d>> \o BSubC(Tail(a), Rest(b), 0)

BSub(a, b) == BTrim(BSubC(a, b, 0))

\* -1, 0, 1 as a <, =, > b
RECURSIVE BCmpFrom(_, _, _)
BCmpFrom(a, b, i) ==
    IF i = 0 THEN 0
    ELSE IF a[i] < b[i] THEN -1
    ELSE IF a[i] > b[i] THEN 1
    ELSE BCmpFrom(a, b, i - 1)

BCmp(a, b) ==
    IF Len(a) < Len(b) THEN -1
    ELSE IF Len(a) > Len(b) THEN 1
    ELSE BCmpFrom(a, b, Len(a))

\* a * k + c for 0 <= k, c < LimbBase
RECURSIVE BMulSmallC(_, _, _)
BMulSmallC(a, k, c) ==
    IF a = << >> THEN (IF c = 0 THEN << >> ELSE <<c>>)
    ELSE LET s == Head(a) * k + c
         IN  <<s % LimbBase>> \o BMulSmallC(Tail(a), k, s \div LimbBase)

BMulSmall(a, k) == BTrim(BMulSmallC(a, k, 0))

RECURSIVE BMul(_, _)
BMul(a, b) ==
    IF b = << >> \/ a = << >> THEN << >>
    ELSE BAdd(BMulSmall(a, Head(b)), BTrim(<<0>> \o BMul(a, Tail(b))))

\* quotient and remainder of a by d, 0 < d <= LimbBase
RECURSIVE BDivMod(_, _)
BDivMod(a, d) ==
    IF a = << >> THEN [q |-> << >>, r |-> 0]
    ELSE LET hi  == BDivMod(Tail(a), d)
             cur == hi.r * LimbBase + Head(a)
         IN  [q |-> <<cur \div d>> \o hi.q, r |-> cur % d]

Zeros(n) == [i \in 1..n |-> 0]

\* a * 2^n
BShl(a, n) ==
    IF a = << >> THEN << >>
    ELSE Zeros(n \div 15) \o BMulSmall(a, 2^(n % 15))

\* floor(a / 2^n)
BShr(a, n) ==
    IF Len(a) <= n \div 15 THEN << >>
    ELSE BTrim(BDivMod(SubSeq(a, (n \div 15) + 1, Len(a)), 2^(n % 15)).q)

RECURSIVE IntBitLen(_)
IntBitLen(n) == IF n = 0 THEN 0 ELSE 1 + IntBitLen(n \div 2)

BBitLen(a) == IF a = << >> THEN 0 ELSE 15 * (Len(a) - 1) + IntBitLen(a[Len(a)])

BOdd(a) == a # << >> /\ a[1] % 2 = 1

(***************************************************************************)
(* IEEE-754 binary64 arithmetic, round to nearest, ties to even.           *)
(***************************************************************************)
Prec == 53

FZero == [neg |-> FALSE, m |-> << >>, e |-> 0]

\* the double nearest to (-1)^neg * n * 2^e
FRound(neg, n, e) ==
    LET bl == BBitLen(n)
    IN  IF bl <= Prec THEN [neg |-> neg, m |-> n, e |-> e]
        ELSE LET sh   == bl - Prec
                 q    == BShr(n, sh)
                 r    == BSub(n, BShl(q, sh))
                 half == BShl(<<1>>, sh - 1)
                 c    == BCmp(r, half)
                 up   == c > 0 \/ (c = 0 /\ BOdd(q))
             IN  [neg |-> neg, m |-> IF up THEN BAdd(q, <<1>>) ELSE q, e |-> e + sh]

FNeg(x) == [x EXCEPT !.neg = ~x.neg]

\* x * y
FMul(x, y) == FRound(x.neg # y.neg, BMul(x.m, y.m), x.e + y.e)

\* x + y
FAdd(x, y) ==
    LET e  == IF x.e < y.e THEN x.e ELSE y.e
        mx == BShl(x.m, x.e - e)
        my == BShl(y.m, y.e - e)
        c  == BCmp(mx, my)
    IN  IF x.neg = y.neg THEN FRound(x.neg, BAdd(mx, my), e)
        ELSE IF c = 0 THEN FZero
        ELSE IF c > 0 THEN FRound(x.neg, BSub(mx, my), e)
        ELSE FRound(y.neg, BSub(my, mx), e)

\* x - y
FSub(x, y) == FAdd(x, FNeg(y))

\* x <= y
FLeq(x, y) == LET d == FSub(x, y) IN d.m = << >> \/ d.neg

Abs(k) == IF k < 0 THEN -k ELSE k

\* Number("k/100") and parseFloat("k/100"): the double nearest to the decimal
\* with k hundredths (the quotient by 100 carries a sticky bit for the remainder)
ParseHundredths(k) ==
    IF k = 0 THEN FZero
    ELSE LET d  == BDivMod(BShl(BNat(Abs(k)), 64), 100)
             q2 == BAdd(BMulSmall(BTrim(d.q), 2), IF d.r = 0 THEN << >> ELSE <<1>>)
         IN  FRound(k < 0, q2, -65)

\* Number.prototype.toFixed(2), as the hundredths it prints: the integer n
\* with n / 100 nearest to |x|, the larger n of two, under the sign of x
ToFixed2(x) ==
    LET n100 == BMulSmall(x.m, 100)
        n    == IF x.e >= 0 THEN BShl(n100, x.e)
                ELSE BShr(BAdd(n100, BShl(<<1>>, (-x.e) - 1)), -x.e)
    IN  IF x.neg THEN -BInt(n) ELSE BInt(n)

(***************************************************************************)
(* Inventory calculator (App.tsx).  Numeric fields and results are counts  *)
(* of hundredths.                                                          *)
(***************************************************************************)
Num(k) == ParseHundredths(k)

Max0(n) == IF n < 0 THEN 0 ELSE n

\* calculateSafetyStock without Math.max(0, ...)
calculateSafetyStock_NoClamp(it) ==
    ToFixed2(FSub(FMul(Num(it.maxDailyUsage), Num(it.leadTime)),
                  FMul(Num(it.avgDailyUsage), Num(it.leadTime))))

\* Math.max(0, parseFloat(safetyStock.toFixed(2)))
calculateSafetyStock(it) ==
    LET safetyStock == FSub(FMul(Num(it.maxDailyUsage), Num(it.leadTime)),
                            FMul(Num(it.avgDailyUsage), Num(it.leadTime)))
    IN  Max0(ToFixed2(safetyStock))

\* parseFloat((demandDuringLeadTime + safetyStock).toFixed(2))
calculateReorderPoint(it) ==
    LET safetyStock == calculateSafetyStock(it)
        demandDuringLeadTime == FMul(Num(it.avgDailyUsage), Num(it.leadTime))
    IN  ToFixed2(FAdd(demandDuringLeadTime, Num(safetyStock)))

\* getStatus comparing with < in place of <=
getStatus_Strict(it) ==
    LET reorderPoint == calculateReorderPoint(it)
    IN  IF ~FLeq(Num(reorderPoint), Num(it.currentStock)) THEN "Reorder Now" ELSE "OK"

getStatus(it) ==
    LET reorderPoint == calculateReorderPoint(it)
    IN  IF FLeq(Num(it.currentStock), Num(reorderPoint)) THEN "Reorder Now" ELSE "OK"

\* the status column of one row of exportToCSV
csvStatus(it) ==
    LET rop == calculateReorderPoint(it)
    IN  IF FLeq(Num(it.currentStock), Num(rop)) THEN "Reorder Now" ELSE "OK"

\* hundredths a numeric field of an item may hold
NumVals == {-100, -5, 0, 5, 10, 15, 100, 1005}

CalcItems == [avgDailyUsage : NumVals, maxDailyUsage : NumVals,
              leadTime : NumVals, currentStock : NumVals]

\* one table row is rendered: safety stock, reorder point and status of the item
Render ==
    /\ row = << >>
    /\ row' = <<[safetyStock  |-> calculateSafetyStock(item),
                 reorderPoint |-> calculateReorderPoint(item),
                 status       |-> getStatus(item)]>>
    /\ UNCHANGED <<item, csv, serverVars, clientVars>>

\* exportToCSV: the computed columns of the item's CSV row
ExportToCSV ==
    /\ csv = << >>
    /\ csv' = <<[ss     |-> calculateSafetyStock(item),
                 rop    |-> calculateReorderPoint(item),
                 status |-> csvStatus(item)]>>
    /\ UNCHANGED <<item, row, serverVars, clientVars>>


(***************************************************************************)
(* Item store and inventory API (the express + sqlite3 server).  A value   *)
(* of a column is the JSON literal that was bound to it, or NULL; the      *)
(* server never looks inside a value.                                      *)
(***************************************************************************)
NULL == "null"

\* the columns bound by INSERT and UPDATE, in the order of the statement
Fields == <<"name", "category", "unit", "avgDailyUsage", "maxDailyUsage", "leadTime", "currentStock">>
FieldSet == {Fields[i] : i \in 1..Len(Fields)}

\* errors the storage layer reports to the callback of db.run / db.all
NoErr == ""
IoErr == "SQLITE_IOERR"
ConstraintErr == "SQLITE_CONSTRAINT: NOT NULL constraint failed: items.name"
StorageErrs == {NoErr, IoErr}

EmptyBody == [f \in {} |-> NULL]

\* const { name, ... } = req.body: an absent key is undefined, bound as NULL
Param(body, f) == IF f \in DOMAIN body THEN body[f] ELSE NULL

\* COALESCE(?, column)
Coalesce(v, old) == IF v # NULL THEN v ELSE old

SetMax(S) == IF S = {} THEN 0 ELSE CHOOSE x \in S : \A y \in S : y <= x

\* id INTEGER PRIMARY KEY without AUTOINCREMENT: one more than the largest rowid now in the table
NewRowId_MaxRowid(d, s) == SetMax(DOMAIN d) + 1

\* id INTEGER PRIMARY KEY AUTOINCREMENT: one more than the largest rowid the
\* table has ever held (sqlite_sequence), not the largest it holds now
NewRowId(d, s) == (IF s > SetMax(DOMAIN d) THEN s ELSE SetMax(DOMAIN d)) + 1

\* SELECT * FROM items
SelectAll(d) == {d[i] : i \in DOMAIN d}

Response(op, status, id, body, changes, rows, error) ==
    [op |-> op, status |-> status, id |-> id, body |-> body,
     changes |-> changes, rows |-> rows, error |-> error]

NoResponse == Response("none", 0, 0, EmptyBody, 0, {}, NoErr)

\* InsertItem binding 0 for an absent numeric field
InsertItem_ZeroDefaults(d, s, body, err) ==
    IF err # NoErr
    THEN [db |-> d, seq |-> s, resp |-> Response("POST", 400, 0, body, 0, {}, err)]
    ELSE IF Param(body, "name") = NULL
    THEN [db |-> d, seq |-> s, resp |-> Response("POST", 400, 0, body, 0, {}, ConstraintErr)]
    ELSE LET id == NewRowId(d, s)
             r  == [f \in FieldSet \cup {"id"} |->
                        IF f = "id" THEN id
                        ELSE IF f \in DOMAIN body THEN body[f]
                        ELSE IF f \in {"avgDailyUsage", "maxDailyUsage", "leadTime", "currentStock"}
                        THEN "0" ELSE NULL]
         IN  [db   |-> [i \in DOMAIN d \cup {id} |-> IF i = id THEN r ELSE d[i]],
              seq  |-> id,
              resp |-> Response("POST", 200, id, body, 1, {}, NoErr)]

\* INSERT INTO items (...) VALUES (?,?,?,?,?,?,?) and the response of POST:
\* the new table, the new sqlite_sequence and the response
InsertItem(d, s, body, err) ==
    IF err # NoErr
    THEN [db |-> d, seq |-> s, resp |-> Response("POST", 400, 0, body, 0, {}, err)]
    ELSE IF Param(body, "name") = NULL
    THEN [db |-> d, seq |-> s, resp |-> Response("POST", 400, 0, body, 0, {}, ConstraintErr)]
    ELSE LET id == NewRowId(d, s)
             r  == [f \in FieldSet \cup {"id"} |->
                        IF f = "id" THEN id ELSE Param(body, f)]
         IN  [db   |-> [i \in DOMAIN d \cup {id} |-> IF i = id THEN r ELSE d[i]],
              seq  |-> id,
              resp |-> Response("POST", 200, id, body, 1, {}, NoErr)]

\* UpdateItem with SET c = ? in place of SET c = COALESCE(?, c)
UpdateItem_NoCoalesce(d, id, body, err) ==
    IF err # NoErr
    THEN [db |-> d, resp |-> Response("PUT", 400, id, body, 0, {}, err)]
    ELSE [db   |-> [i \in DOMAIN d |->
                      IF i = id
                      THEN [f \in DOMAIN d[i] |-> IF f = "id" THEN d[i][f] ELSE Param(body, f)]
                      ELSE d[i]],
          resp |-> Response("PUT", 200, id, body, IF id \in DOMAIN d THEN 1 ELSE 0, {}, NoErr)]

\* UPDATE items SET c = COALESCE(?, c), ... WHERE id = ? and the response of PUT
UpdateItem(d, id, body, err) ==
    IF err # NoErr
    THEN [db |-> d, resp |-> Response("PUT", 400, id, body, 0, {}, err)]
    ELSE [db   |-> [i \in DOMAIN d |->
                      IF i = id
                      THEN [f \in DOMAIN d[i] |->
                              IF f = "id" THEN d[i][f] ELSE Coalesce(Param(body, f), d[i][f])]
                      ELSE d[i]],
          resp |-> Response("PUT", 200, id, body, IF id \in DOMAIN d THEN 1 ELSE 0, {}, NoErr)]

\* DeleteItem answering an id that matches no row with an error
DeleteItem_NotFoundIsError(d, id, err) ==
    IF err # NoErr
    THEN [db |-> d, resp |-> Response("DELETE", 400, id, EmptyBody, 0, {}, err)]
    ELSE IF id \notin DOMAIN d
    THEN [db |-> d, resp |-> Response("DELETE", 404, id, EmptyBody, 0, {}, "not found")]
    ELSE [db   |-> [i \in DOMAIN d \ {id} |-> d[i]],
          resp |-> Response("DELETE", 200, id, EmptyBody, 1, {}, NoErr)]

\* DELETE FROM items WHERE id = ? and the response of DELETE
DeleteItem(d, id, err) ==
    IF err # NoErr
    THEN [db |-> d, resp |-> Response("DELETE", 400, id, EmptyBody, 0, {}, err)]
    ELSE [db   |-> [i \in DOMAIN d \ {id} |-> d[i]],
          resp |-> Response("DELETE", 200, id, EmptyBody, IF id \in DOMAIN d THEN 1 ELSE 0, {}, NoErr)]

\* bounds of the API behaviours
MaxOps == 3
MaxCreates == 2

\* the value a create request carries for a field, and the value an update carries
CreateVal(f) == IF f = "name" THEN "Beef" ELSE IF f = "category" THEN "Meat"
                ELSE IF f = "unit" THEN "kg" ELSE "10"
UpdateVal(f) == IF f = "name" THEN "Tofu" ELSE IF f = "category" THEN "Veggie"
                ELSE IF f = "unit" THEN "g" ELSE "20"

\* bodies of create requests: every field, all fields but one, name alone, none
PostBodies == {[f \in S |-> CreateVal(f)] :
                 S \in {FieldSet, {"name"}, {}} \cup {FieldSet \ {g} : g \in FieldSet}}

\* bodies of update requests: no field, one field, or two; a value or JSON null
PutBodies == UNION {[S -> {NULL}] \cup {[f \in S |-> UpdateVal(f)]} :
                 S \in {{}, {"name", "currentStock"}} \cup {{g} : g \in FieldSet}}

RequestIds == 1..(MaxCreates + 1)

\* GET /api/items
ApiGet(err) ==
    /\ nops < MaxOps
    /\ resp' = IF err # NoErr
               THEN Response("GET", 400, 0, EmptyBody, 0, {}, err)
               ELSE Response("GET", 200, 0, EmptyBody, 0, SelectAll(db), NoErr)
    /\ nops' = nops + 1
    /\ UNCHANGED <<db, seq, assigned, calcVars, clientVars>>

\* POST /api/items
ApiPost(body, err) ==
    /\ nops < MaxOps
    /\ Len(assigned) < MaxCreates
    /\ LET out == InsertItem(db, seq, body, err)
       IN  /\ db' = out.db
           /\ seq' = out.seq
           /\ resp' = out.resp
           /\ assigned' = IF out.resp.status = 200 THEN Append(assigned, out.resp.id) ELSE assigned
    /\ nops' = nops + 1
    /\ UNCHANGED <<calcVars, clientVars>>

\* PUT /api/items/:id
ApiPut(id, body, err) ==
    /\ nops < MaxOps
    /\ LET out == UpdateItem(db, id, body, err)
       IN  /\ db' = out.db
           /\ resp' = out.resp
    /\ nops' = nops + 1
    /\ UNCHANGED <<seq, assigned, calcVars, clientVars>>

\* DELETE /api/items/:id
ApiDelete(id, err) ==
    /\ nops < MaxOps
    /\ LET out == DeleteItem(db, id, err)
       IN  /\ db' = out.db
           /\ resp' = out.resp
    /\ nops' = nops + 1
    /\ UNCHANGED <<seq, assigned, calcVars, clientVars>>

\* the table as CREATE TABLE IF NOT EXISTS leaves a fresh database
Init ==
    /\ db = << >> /\ seq = 0 /\ assigned = << >> /\ resp = NoResponse /\ nops = 0
    /\ item = [avgDailyUsage |-> 0, maxDailyUsage |-> 0, leadTime |-> 0, currentStock |-> 0]
    /\ row = << >> /\ csv = << >>
    /\ items = << >> /\ calls = << >>

Next ==
    \/ \E err \in StorageErrs : ApiGet(err)
    \/ \E body \in PostBodies, err \in StorageErrs : ApiPost(body, err)
    \/ \E id \in RequestIds, body \in PutBodies, err \in StorageErrs : ApiPut(id, body, err)
    \/ \E id \in RequestIds, err \in StorageErrs : ApiDelete(id, err)

Spec == Init /\ [][Next]_vars

\* the calculator applied to one item drawn from the bounded inputs
InitCalc ==
    /\ item \in CalcItems
    /\ row = << >>
    /\ csv = << >>
    /\ db = << >> /\ seq = 0 /\ assigned = << >> /\ nops = 0
    /\ resp = NoResponse
    /\ items = << >> /\ calls = << >>

NextCalc == Render \/ ExportToCSV

SpecCalc == InitCalc /\ [][NextCalc]_vars

(***************************************************************************)
(* Claims about the calculator, checked under SpecCalc.  The reference     *)
(* values are computed in exact decimal arithmetic: the product of two     *)
(* counts of hundredths is a count of ten-thousandths, and Round2 rounds   *)
(* it to hundredths, halves away from zero.                                *)
(***************************************************************************)
Round2(x) == IF x < 0 THEN -((50 - x) \div 100) ELSE (x + 50) \div 100

A == item.avgDailyUsage
M == item.maxDailyUsage
L == item.leadTime

\* C1: for non-negative A, M, L with M >= A, calculateSafetyStock returns
\* round2((M - A) * L), and the result is >= 0.
C1_SafetyStockIsRound2 ==
    (row # << >> /\ A >= 0 /\ M >= A /\ L >= 0)
        => /\ row[1].safetyStock = Round2((M - A) * L)
           /\ row[1].safetyStock >= 0

\* C2 as stated: for all A, M, L with M < A, whatever the sign of L,
\* calculateSafetyStock returns 0.
C2_ZeroWheneverMaxBelowAvg ==
    (row # << >> /\ M < A) => row[1].safetyStock = 0

\* C2 as amended: for all A, M, L with M < A and L >= 0,
\* calculateSafetyStock returns 0.
C2_ZeroWhenMaxBelowAvgAndLeadTimeNonNegative ==
    (row # << >> /\ M < A /\ L >= 0) => row[1].safetyStock = 0

\* a row whose raw difference M*L - A*L is at most -0.01 and was clamped
C2_Witness ==
    /\ row # << >>
    /\ M < A /\ L > 0 /\ (M - A) * L <= -100
    /\ row[1].safetyStock = 0

\* C3: for every item, calculateReorderPoint returns round2(A * L) plus the
\* safety stock of the same item, and the result is always >= 0.
C3_ReorderPointIsRound2PlusSafety ==
    row # << >>
        => /\ row[1].reorderPoint = Round2(A * L) + row[1].safetyStock
           /\ row[1].reorderPoint >= 0

\* C4: the status is "Reorder Now" exactly when currentStock <= reorderPoint
\* and "OK" otherwise, in the table and in the CSV export, and the two agree.
C4_StatusIffAtOrBelowReorderPoint ==
    /\ row # << >> =>
         row[1].status = (IF item.currentStock <= row[1].reorderPoint THEN "Reorder Now" ELSE "OK")
    /\ csv # << >> =>
         csv[1].status = (IF item.currentStock <= csv[1].rop THEN "Reorder Now" ELSE "OK")
    /\ (row # << >> /\ csv # << >>) => row[1].status = csv[1].status

\* table row and CSV row of an item whose stock is exactly at its reorder point
C4_Witness ==
    /\ row # << >> /\ csv # << >>
    /\ item.currentStock > 0
    /\ item.currentStock = row[1].reorderPoint
    /\ row[1].status = "Reorder Now"
    /\ csv[1].status = "Reorder Now"

(***************************************************************************)
(* Claims about the item store and the API, checked under Spec.  A step of *)
(* the API is one request served (nops grows by one); resp' is its         *)
(* response.  A failure of the storage layer itself (IoErr) is answered    *)
(* with a 400 by every route and is outside the claims.                    *)
(***************************************************************************)
Range(q) == {q[i] : i \in 1..Len(q)}

Served(op) == nops' = nops + 1 /\ resp'.op = op /\ resp'.error # IoErr

\* the row INSERT stores for a request body: absent fields are NULL
StoredAs(r, body) == \A f \in FieldSet : r[f] = Param(body, f)

\* C5: after any sequence of creates, updates and deletes, a successful create
\* assigns an id distinct from every id assigned by an earlier create, deleted
\* or not, and a list that follows it contains the created item under that id.
C5_CreateAssignsFreshIdAndIsListed ==
    [][ /\ (Served("POST") /\ resp'.status = 200)
            => /\ resp'.id \notin Range(assigned)
               /\ resp'.id \in DOMAIN db'
               /\ db'[resp'.id].id = resp'.id
        /\ (resp.op = "POST" /\ resp.status = 200 /\ Served("GET") /\ resp'.status = 200)
            => \E r \in resp'.rows : r.id = resp.id /\ StoredAs(r, resp.body)
      ]_vars

\* a create that succeeded after the item created before it had been deleted
C5_Witness ==
    /\ resp.op = "POST" /\ resp.status = 200
    /\ Len(assigned) = 2
    /\ assigned[1] \notin DOMAIN db
    /\ resp.id = assigned[2]
    /\ resp.id \in DOMAIN db

\* C6: an update whose body carries one field changes only that field of the
\* item with that id; every other field of it and every other item is as before.
C6_PartialUpdateChangesOnlyThatField ==
    [][ (Served("PUT") /\ Cardinality(DOMAIN resp'.body) = 1)
            => /\ DOMAIN db' = DOMAIN db
               /\ \A i \in DOMAIN db : \A f \in FieldSet \cup {"id"} :
                    db'[i][f] = IF i = resp'.id /\ f \in DOMAIN resp'.body /\ resp'.body[f] # NULL
                                THEN resp'.body[f]
                                ELSE db[i][f]
      ]_vars

\* one field of one of two stored items was updated, another field of it kept
C6_Witness ==
    /\ resp.op = "PUT" /\ resp.status = 200 /\ resp.changes = 1
    /\ Cardinality(DOMAIN resp.body) = 1
    /\ Cardinality(DOMAIN db) = 2
    /\ resp.id \in DOMAIN db
    /\ \E f \in DOMAIN resp.body :
          /\ db[resp.id][f] = UpdateVal(f)
          /\ \E g \in FieldSet \ {f} : db[resp.id][g] = CreateVal(g)

\* C7: a delete or an update addressed to an id that is not in the store is
\* answered with success (not an error) and changes = 0, and the store is left
\* as it was.  (Requests that the storage layer itself fails are set aside.)
C7_AbsentIdIsZeroChangesSuccess ==
    [][ ((Served("PUT") \/ Served("DELETE")) /\ resp'.id \notin DOMAIN db)
            => /\ resp'.status = 200
               /\ resp'.changes = 0
               /\ db' = db
               /\ seq' = seq
      ]_vars

\* a delete of an id that is not among the stored items answered with 0 changes
C7_Witness ==
    /\ resp.op = "DELETE" /\ resp.status = 200 /\ resp.changes = 0
    /\ db # << >>
    /\ resp.id \notin DOMAIN db

\* C8 as stated: for every subset of the item fields present in the body, the
\* create succeeds and stores an item, each missing field stored as null.
C8_CreateSucceedsForEverySubset ==
    [][ Served("POST")
            => /\ resp'.status = 200
               /\ resp'.id \in DOMAIN db' \ DOMAIN db
               /\ StoredAs(db'[resp'.id], resp'.body)
      ]_vars

\* C8 as amended: for every subset of the item fields that includes name, the
\* create succeeds and stores an item with each missing field stored as null;
\* a create without name is answered with an error and stores nothing.
C8_CreateSucceedsIffNamePresent ==
    [][ Served("POST")
            => IF "name" \in DOMAIN resp'.body
               THEN /\ resp'.status = 200
                    /\ DOMAIN db' = DOMAIN db \cup {resp'.id}
                    /\ resp'.id \notin DOMAIN db
                    /\ StoredAs(db'[resp'.id], resp'.body)
                    /\ \A i \in DOMAIN db : db'[i] = db[i]
               ELSE /\ resp'.status = 400
                    /\ db' = db
                    /\ seq' = seq
      ]_vars

\* a stored item created from a body that lacked one of the fields
C8_Witness ==
    /\ resp.op = "POST" /\ resp.status = 200
    /\ resp.id \in DOMAIN db
    /\ \E f \in FieldSet \ DOMAIN resp.body : db[resp.id][f] = NULL

(***************************************************************************)
(* Client view (App.tsx): the React state `items` and the optimistic edit  *)
(* of handleUpdate.  A call of handleUpdate is a record of calls: its      *)
(* arguments, the originalItems its closure holds, where its fetch stands  *)
(* (st) and the HTTP status of the response once the server has answered.  *)
(* before is history: the list as it was when the edit was made.           *)
(***************************************************************************)
MaxEdits == 2

\* the fields the table's inputs edit, and the values typed into them
EditFields == {"name", "avgDailyUsage", "maxDailyUsage", "leadTime", "currentStock"}
EditVals(f) == IF f = "name" THEN {"Tofu", "Pork"} ELSE {"20"}

\* rows of SELECT * FROM items in rowid order, as fetchItems hands them to setItems
RECURSIVE RowsFrom(_, _)
RowsFrom(d, ids) ==
    IF ids = {} THEN << >>
    ELSE LET i == CHOOSE x \in ids : \A y \in ids : x <= y
         IN  <<d[i]>> \o RowsFrom(d, ids \ {i})

fetchItems(d) == RowsFrom(d, DOMAIN d)

\* items.map(item => item.id === id ? { ...item, [field]: value } : item)
applyEdit(its, id, field, value) ==
    [k \in DOMAIN its |-> IF its[k].id = id THEN [its[k] EXCEPT ![field] = value] ELSE its[k]]

\* body: JSON.stringify({ [field]: value })
putBody(field, value) == [f \in {field} |-> value]

\* the catch block without setItems(originalItems)
revertItems_NoRevert(its, call) == its

\* catch (error) { setItems(originalItems) }: the list after the fetch rejected
revertItems(its, call) == call.originalItems

\* handleUpdate reading the response and reverting when it is an error
resolveItems_RevertOnErrorStatus(its, call) ==
    IF call.status # 200 THEN call.originalItems ELSE its

\* handleUpdate writing the value the server acknowledged into the list
resolveItems_ApplyResponse(its, call) ==
    IF call.status = 200 THEN applyEdit(its, call.id, call.field, call.value) ELSE its

\* await fetch(...) returned a response, of any status: nothing follows it
resolveItems(its, call) == its

\* handleUpdate up to the await: optimistic update, then the PUT is issued
HandleUpdate(id, field, value) ==
    /\ Len(calls) < MaxEdits
    /\ \E k \in DOMAIN items : items[k].id = id
    /\ items' = applyEdit(items, id, field, value)
    /\ calls' = Append(calls, [id |-> id, field |-> field, value |-> value,
                               originalItems |-> items, before |-> items,
                               st |-> "sent", status |-> 0])
    /\ UNCHANGED <<calcVars, serverVars>>

\* the server handles the PUT of call k
ServePut(k, err) ==
    /\ k \in DOMAIN calls
    /\ calls[k].st = "sent"
    /\ LET out == UpdateItem(db, calls[k].id, putBody(calls[k].field, calls[k].value), err)
       IN  /\ db' = out.db
           /\ calls' = [calls EXCEPT ![k].st = "served", ![k].status = out.resp.status]
    /\ UNCHANGED <<items, seq, assigned, resp, nops, calcVars>>

\* the response of call k reaches the client: the fetch promise resolves
FetchResolve(k) ==
    /\ k \in DOMAIN calls
    /\ calls[k].st = "served"
    /\ items' = resolveItems(items, calls[k])
    /\ calls' = [calls EXCEPT ![k].st = "resolved"]
    /\ UNCHANGED <<calcVars, serverVars>>

\* network failure of call k, before the request reached the server or after
\* (the response is lost): the fetch promise rejects and the catch block runs
FetchReject(k) ==
    /\ k \in DOMAIN calls
    /\ calls[k].st \in {"sent", "served"}
    /\ items' = revertItems(items, calls[k])
    /\ calls' = [calls EXCEPT ![k].st = "reverted"]
    /\ UNCHANGED <<calcVars, serverVars>>

\* two items created with every field, and the client after fetchItems
InitialDb == InsertItem(InsertItem(<< >>, 0, [f \in FieldSet |-> CreateVal(f)], NoErr).db, 1,
                        [f \in FieldSet |-> CreateVal(f)], NoErr)

InitClient ==
    /\ db = InitialDb.db
    /\ seq = InitialDb.seq
    /\ assigned = <<1, 2>>
    /\ resp = NoResponse
    /\ nops = 0
    /\ items = fetchItems(db)
    /\ calls = << >>
    /\ item = [avgDailyUsage |-> 0, maxDailyUsage |-> 0, leadTime |-> 0, currentStock |-> 0]
    /\ row = << >> /\ csv = << >>

NextClient ==
    \/ \E k \in DOMAIN items, f \in EditFields : \E v \in EditVals(f) : HandleUpdate(items[k].id, f, v)
    \/ \E k \in 1..MaxEdits, err \in StorageErrs : ServePut(k, err)
    \/ \E k \in 1..MaxEdits : FetchResolve(k)
    \/ \E k \in 1..MaxEdits : FetchReject(k)

SpecClient == InitClient /\ [][NextClient]_vars

(***************************************************************************)
(* Claims about the optimistic edit, checked under SpecClient.             *)
(***************************************************************************)
Started(k) == Len(calls) = k - 1 /\ Len(calls') = k

Rejected(k) == k \in DOMAIN calls /\ calls[k].st \in {"sent", "served"} /\ calls'[k].st = "reverted"

Resolved(k) == k \in DOMAIN calls /\ calls[k].st = "served" /\ calls'[k].st = "resolved"

\* the edit of a call changed the field it edited
Changed(c) == \E j \in DOMAIN c.before : c.before[j].id = c.id /\ c.before[j][c.field] # c.value

\* C9: handleUpdate applies the edit to the in-memory list at once and then
\* issues the PUT; if that network call fails, the list is restored to the
\* state it had immediately before the edit was applied.
C9_OptimisticEditRevertsOnNetworkFailure ==
    [][ \A k \in 1..MaxEdits :
          /\ Started(k) =>
                /\ DOMAIN items' = DOMAIN items
                /\ \A j \in DOMAIN items : \A f \in FieldSet \cup {"id"} :
                      items'[j][f] = IF items[j].id = calls'[k].id /\ f = calls'[k].field
                                     THEN calls'[k].value ELSE items[j][f]
                /\ calls'[k].st = "sent"
                /\ db' = db
          /\ Rejected(k) => items' = calls[k].before
      ]_vars

\* an edit that changed a field was undone by a network failure
C9_Witness ==
    \E k \in DOMAIN calls :
        /\ calls[k].st = "reverted"
        /\ Changed(calls[k])
        /\ items = calls[k].before

\* C10 as stated: a network error and a server error (an error response from
\* PUT) both revert the optimistic change in the client's list.
C10_NetworkAndServerErrorsRevert ==
    [][ \A k \in 1..MaxEdits :
          /\ Rejected(k) => items' = calls[k].before
          /\ (Resolved(k) /\ calls[k].status # 200) => items' = calls[k].before
      ]_vars

\* C10 as amended: a network error reverts the optimistic change; an error
\* response from PUT does not: the list stays as it was when the response came.
C10_OnlyNetworkErrorsRevert ==
    [][ \A k \in 1..MaxEdits :
          /\ Rejected(k) => items' = calls[k].before
          /\ Resolved(k) => items' = items
      ]_vars

\* the server answered an edit with an error, the response arrived, and the
\* client still shows the edited value, which the store does not hold
C10_Witness ==
    \E k \in DOMAIN calls :
        /\ calls[k].st = "resolved"
        /\ calls[k].status = 400
        /\ Changed(calls[k])
        /\ \E j \in DOMAIN items : items[j].id = calls[k].id /\ items[j][calls[k].field] = calls[k].value
        /\ db[calls[k].id][calls[k].field] # calls[k].value

\* two calls edit the same field of the same item
SameTarget(a, b) == a.id = b.id /\ a.field = b.field

\* the value the list its shows for the field that call c edits
Shown(its, c) == LET j == CHOOSE j \in DOMAIN its : its[j].id = c.id IN its[j][c.field]

\* the value the table d holds for the field that call c edits
Stored(d, c) == d[c.id][c.field]

\* the server handles the PUT of call k in this step
Handled(k) == k \in DOMAIN calls /\ calls[k].st = "sent" /\ calls'[k].st = "served"

\* every call has received its response
AllResolved(cs) == cs # << >> /\ \A k \in DOMAIN cs : cs[k].st = "resolved"

\* C11 as stated: when two edits to the same field of the same item are in
\* flight together and both PUTs succeed, the value that finally stands for the
\* field is the value of the edit whose response arrives last.  (Two such
\* edits that are not in flight together end with the later edit's value, whose
\* response is also the last, so the formula asks nothing more of them.)
C11_LastResponseWins ==
    [][ \A k, o \in 1..MaxEdits :
          ( /\ k # o /\ o \in DOMAIN calls
            /\ Resolved(k) /\ calls[o].st = "resolved"
            /\ SameTarget(calls[k], calls[o])
            /\ calls[k].status = 200 /\ calls[o].status = 200
            /\ AllResolved(calls') )
          => /\ Shown(items', calls[k]) = calls[k].value
             /\ Stored(db', calls[k]) = calls[k].value
      ]_vars

\* C11 as amended: when edits to the same field of the same item are in flight
\* together and their PUTs succeed, the arrival of a response changes neither the
\* client's list nor the store: the list ends showing the value of the edit made
\* last, and the store holds the value of the PUT the server handled last.
C11_LastEditShownLastHandledStored ==
    [][ /\ \A k \in 1..MaxEdits :
             /\ (Handled(k) /\ calls'[k].status = 200) => Stored(db', calls[k]) = calls[k].value
             /\ Resolved(k) => (items' = items /\ db' = db)
        /\ db' # db => \E k \in 1..MaxEdits : Handled(k)
        /\ AllResolved(calls') =>
             \A o \in DOMAIN calls' :
                (\A c \in DOMAIN calls' : (c > o) => ~SameTarget(calls'[c], calls'[o]))
                   => Shown(items', calls'[o]) = calls'[o].value
      ]_vars

\* two edits of one field with different values, both accepted by the server:
\* the response of the later edit has arrived, that of the earlier edit is still
\* to arrive, and the list and the store hold the later edit's value
C11_Witness ==
    /\ Len(calls) >= 2
    /\ SameTarget(calls[1], calls[2])
    /\ calls[1].value # calls[2].value
    /\ calls[1].status = 200 /\ calls[2].status = 200
    /\ calls[1].st = "served" /\ calls[2].st = "resolved"
    /\ Shown(items, calls[2]) = calls[2].value
    /\ Stored(db, calls[2]) = calls[2].value

\* C12: starting from a client list equal to the store's contents, after any
\* sequence of client edits whose PUTs succeed or fail with a network error,
\* once no call is in flight every field of every item in the client's list
\* equals the value the store holds for it.  (A call counts as failed only when
\* its request never reached the server, and as succeeded only when the server
\* answered 200, so neither a lost response nor an error status is held
\* against the claim.)
C12_ClientEqualsStoreWhenQuiet ==
    ( /\ calls # << >>
      /\ \A k \in DOMAIN calls :
            \/ calls[k].st = "resolved" /\ calls[k].status = 200
            \/ calls[k].st = "reverted" /\ calls[k].status = 0 )
    => \A j \in DOMAIN items : items[j] = db[items[j].id]

====
